---- MODULE Spec2Model ----
(***************************************************************************)
(* Chat transcript renderer of app/static/js/script.js: the active         *)
(* conversation, the pagination cursor, the rendered transcript and the    *)
(* fetches that are outstanding between an await and its continuation.     *)
(*                                                                         *)
(* Every async function of the source is split at its await: the part up   *)
(* to the fetch is one action, the continuation that runs when the fetch   *)
(* settles is another.  The event loop runs one of them at a time.         *)
(*                                                                         *)
(* The notification centre (notifications.js), the app lock and the image  *)
(* gallery are modelled next to it, each with a specification of its own   *)
(* that leaves the variables of the others unchanged.                      *)
(***************************************************************************)
EXTENDS Integers, Sequences, FiniteSets, TLC

(* ------------------------------ bounds --------------------------------- *)

\* conversation ids the sidebar offers: 1..NumConversations
NumConversations == 2
\* messages the backend holds for each conversation
MsgCount == 4
\* messages per page served by the backend
PageSize == 2
\* largest pagination.page value a response may carry
MaxPage == 2
\* fetches issued in one behaviour
MaxFetches == 4
\* height of the messages container, in message heights
ClientHeight == 1
\* segments (word, space, marker, ...) a message content is made of
MaxSegments == 2
\* user ids of the backend: 1..NumUsers
NumUsers == 2
\* attachments a chat response carries
MaxAttachments == 2
\* characters the user types into the input
MaxInputLen == 1
\* submissions accepted in one behaviour
MaxSubmits == 1
\* fetches issued in one behaviour that has a submission
SubmitFetches == 2
\* notification ids of the backend: 1..NumNotifications
NumNotifications == 2
\* requests the NotificationManager issues in one behaviour
MaxNotifRequests == 4
\* handlers of AppLock run in one behaviour
MaxLockEvents == 10
\* requests the image gallery issues in one behaviour
MaxGalleryRequests == 4

(* ----------------------------- constants ------------------------------- *)

\* State.currentConversationId: null  (falsy, like the id 0)
null == 0

Conversations == 1..NumConversations

\* State.pagination before the first loadConversationHistory: the field is
\* absent from the State literal
undefined == [page |-> 0, hasMore |-> FALSE, isLoading |-> FALSE]

\* the cursor loadConversationHistory installs
ResetPagination == [page |-> 1, hasMore |-> TRUE, isLoading |-> FALSE]

NoToast == "none"
HistoryToast == "Erreur lors du chargement de la conversation"
MoreToast == "Impossible de charger plus de messages"

\* const maxAttempts of pollImageStatus
maxAttempts == 60
\* setTimeout(check, 2000) after a response that is neither completed nor failed
PollInterval == 2000
\* setTimeout(check, 5000) after a status request that was rejected
ErrorRetryDelay == 5000
\* the delay typeAIStream awaits after a token, 30 + Math.random() * 20 ms,
\* in units of 10 ms
TokenDelayMin == 3
TokenDelayMax == 5
\* the setTimeout(..., 100) of createMessageElement, in units of 10 ms
ElementPollDelay == 10
\* AppLock.config.pinLength
pinLength == 6
\* the shortest PIN verifyPIN sends
MinPinLength == 4

(* ------------------------------ helpers -------------------------------- *)

Max(a, b) == IF a >= b THEN a ELSE b

\* Array.prototype.reverse
Reverse(s) == [i \in 1..Len(s) |-> s[Len(s) + 1 - i]]

\* The page the backend serves: page 1 holds the newest PageSize messages,
\* page k the k-th block before them, each in chronological order.
BackendPage(c, k) ==
    LET hi == MsgCount - (k - 1) * PageSize
        lo == Max(1, MsgCount - k * PageSize + 1)
    IN  IF hi < 1 THEN << >>
        ELSE [i \in 1..(hi - lo + 1) |-> [conv |-> c, seq |-> lo + i - 1]]

\* data.pagination of a response: absent, or {page, has_more}
NoPagination == [present |-> FALSE, page |-> 0, has_more |-> FALSE]
Paginations ==
    {NoPagination} \cup
    [present : {TRUE}, page : 1..MaxPage, has_more : BOOLEAN]

\* what a fetch settles to: rejected / non-2xx (ok = FALSE) or a JSON body
Responses ==
    {[ok |-> FALSE, pagination |-> NoPagination]} \cup
    [ok : {TRUE}, pagination : Paginations]

(* ------------------------------- state --------------------------------- *)

VARIABLES
    currentConversationId,  \* State.currentConversationId
    pagination,             \* State.pagination
    transcript,             \* children of elements.messages, top to bottom
    scrollTop,              \* elements.messages.scrollTop
    inflight,               \* fetches awaiting their response
    fetchCount,             \* fetches issued so far
    latestHistory,          \* id of the fetch of the latest loadConversationHistory
    lastOp,                 \* the handler that ran last and what it did
    exhausted,              \* an older-page response without pagination metadata
                            \* was applied since the cursor was last reset
    scenario,               \* so far: one selection, page 1 applied before any
                            \* scroll, one fetch at a time, truthful responses
    pollPc,                 \* where the check closure of pollImageStatus stands
    attempts,               \* let attempts of pollImageStatus
    pollDelay,              \* delay of the pending setTimeout(check, ...)
    observed,               \* outcome of the status request that settled last
    renderMsg,              \* msg of the forEach of a history page, with data.user_id
    renderNode,             \* what createMessageElement returned for renderMsg
    isTyping,               \* State.isTyping
    submitPc,               \* where handleSubmit stands: idle, request, stream
    submitConv,             \* conversation_id of the payload of the chat request
    submitted,              \* const message and const attachments of that handleSubmit
    submitLog,              \* nodes the running handleSubmit appended, in order
    submits,                \* submissions accepted so far
    streamPc,               \* where typeAIStream stands: idle, delay, done
    streamContent,          \* content argument of typeAIStream
    streamAttachments,      \* attachments argument of typeAIStream
    revealed,               \* iterations of the for loop completed (i + 1)
    currentText,            \* let currentText of typeAIStream
    contentDiv,             \* innerHTML of the .markdown-body of the streamed node
    untilToken,             \* time left of the delay typeAIStream awaits
    untilElement,           \* time left of the setTimeout of createMessageElement,
                            \* -1 once it fired
    polls,                  \* pollImageStatus calls made for the streamed node
    notifications,          \* this.notifications of the NotificationManager
    unreadCount,            \* this.unreadCount
    notifInflight,          \* requests of the NotificationManager awaiting a response
    notifRequests,          \* requests the NotificationManager issued so far
    selfConsistent,         \* every loadNotifications response applied so far had
                            \* unread_count equal to the unread entries it listed
    lastNotif,              \* the continuation of the NotificationManager that ran last
    digits,                 \* AppLock.digits
    isEnabled,              \* AppLock.state.isEnabled
    isLocked,               \* AppLock.state.isLocked
    isVerifying,            \* AppLock.state.isVerifying
    overlay,                \* classes of #appLockOverlay: hidden, opacity-0
    lockTimers,             \* pending setTimeout callbacks of AppLock, by kind
    lockInflight,           \* requests of AppLock awaiting a response, by kind
    lockEvents,             \* handlers of AppLock run so far
    lastLock,               \* the handler of AppLock that ran last and its outcome
    currentPage,            \* state.currentPage of the gallery
    currentSearchQuery,     \* state.currentSearchQuery
    loadMoreHidden,         \* elements.loadMoreBtn carries the class hidden
    galleryInflight,        \* search requests of the gallery awaiting a response
    galleryRequests,        \* search requests the gallery issued so far
    lastDisplayed,          \* number of the result page displayed last for the
                            \* search that filled the container, 0 when it shows none
    lastGallery             \* the continuation of the gallery that ran last

chatVars == <<currentConversationId, pagination, transcript, scrollTop, inflight,
              fetchCount, latestHistory, lastOp, exhausted, scenario>>
pollVars == <<pollPc, attempts, pollDelay, observed>>
renderVars == <<renderMsg, renderNode>>
streamVars == <<isTyping, submitPc, submitConv, submitted, submitLog, submits, streamPc,
                streamContent, streamAttachments, revealed, currentText, contentDiv,
                untilToken, untilElement, polls>>
notifVars == <<notifications, unreadCount, notifInflight, notifRequests,
               selfConsistent, lastNotif>>
lockVars == <<digits, isEnabled, isLocked, isVerifying, overlay, lockTimers,
              lockInflight, lockEvents, lastLock>>
galleryVars == <<currentPage, currentSearchQuery, loadMoreHidden, galleryInflight,
                 galleryRequests, lastDisplayed, lastGallery>>
widgetVars == <<notifVars, lockVars, galleryVars>>
notNotif == <<chatVars, pollVars, renderVars, streamVars, lockVars, galleryVars>>
notLock == <<chatVars, pollVars, renderVars, streamVars, notifVars, galleryVars>>
notGallery == <<chatVars, pollVars, renderVars, streamVars, notifVars, lockVars>>
notStream == <<pollVars, renderVars, widgetVars>>
notChat == <<pollVars, renderVars, streamVars, widgetVars>>
notPoll == <<chatVars, renderVars, streamVars, widgetVars>>
notRender == <<chatVars, pollVars, streamVars, widgetVars>>
vars == <<currentConversationId, pagination, transcript, scrollTop, inflight,
          fetchCount, latestHistory, lastOp, exhausted, scenario,
          pollPc, attempts, pollDelay, observed, renderMsg, renderNode,
          isTyping, submitPc, submitConv, submitted, submitLog, submits, streamPc,
          streamContent, streamAttachments, revealed, currentText, contentDiv,
          untilToken, untilElement, polls,
          notifications, unreadCount, notifInflight, notifRequests, selfConsistent,
          lastNotif,
          digits, isEnabled, isLocked, isVerifying, overlay, lockTimers, lockInflight,
          lockEvents, lastLock,
          currentPage, currentSearchQuery, loadMoreHidden, galleryInflight,
          galleryRequests, lastDisplayed, lastGallery>>

Op(name, conv, ok, toast) ==
    [op |-> name, conv |-> conv, ok |-> ok, toast |-> toast, push |-> FALSE]

\* the handler also called window.history.pushState
Pushed(o) == [o EXCEPT !.push = TRUE]

HistoryFetch(id, c) ==
    [id |-> id, kind |-> "history", conv |-> c, page |-> 1, height |-> 0]
\* h is the scrollHeight loadMoreMessages read before its fetch
MoreFetch(id, c, p, h) ==
    [id |-> id, kind |-> "more", conv |-> c, page |-> p, height |-> h]

\* the response a backend that reports pagination truthfully gives to f
Truthful(f) ==
    [ok |-> TRUE,
     pagination |-> [present |-> TRUE, page |-> f.page,
                     has_more |-> (MsgCount > f.page * PageSize)]]

\* scrollHeight of the container: one unit per message node, never less than
\* the container's own height
scrollHeight(t) == Max(Len(t), ClientHeight)

\* the largest scrollTop the container accepts
MaxScrollTop(t) == scrollHeight(t) - ClientHeight

\* an assignment to scrollTop is clamped to the scrollable range
ClampScroll(y, t) ==
    IF y < 0 THEN 0 ELSE IF y > MaxScrollTop(t) THEN MaxScrollTop(t) ELSE y

\* no poll loop is running
PollIdle ==
    /\ pollPc = "idle"
    /\ attempts = 0
    /\ pollDelay = 0
    /\ observed = "none"

\* no message is being rendered
RenderIdle ==
    /\ renderMsg = [content |-> << >>, sender_id |-> 0, message_type |-> "none",
                    user_id |-> 0]
    /\ renderNode = [isUser |-> FALSE, markup |-> << >>]

\* no submission was made and no reply is being revealed
StreamIdle ==
    /\ isTyping = FALSE
    /\ submitPc = "idle"
    /\ submitConv = null
    /\ submitted = [message |-> << >>, pending |-> << >>]
    /\ submitLog = << >>
    /\ submits = 0
    /\ streamPc = "idle"
    /\ streamContent = << >>
    /\ streamAttachments = << >>
    /\ revealed = 0
    /\ currentText = << >>
    /\ contentDiv = << >>
    /\ untilToken = 0
    /\ untilElement = -1
    /\ polls = << >>

\* the NotificationManager as its constructor leaves it: init() has called
\* loadNotifications, whose request is outstanding
NotifRequest(req, kind, id) == [req |-> req, kind |-> kind, id |-> id]
\* repeat: the continuation that ran before was of the same operation for
\* the same id and its request had succeeded
NotifDone(req, op, id, ok, repeat) ==
    [req |-> req, op |-> op, id |-> id, ok |-> ok, repeat |-> repeat]
NotifConstructed ==
    /\ notifications = << >>
    /\ unreadCount = 0
    /\ notifInflight = {NotifRequest(1, "loadNotifications", 0)}
    /\ notifRequests = 1
    /\ selfConsistent = TRUE
    /\ lastNotif = NotifDone(0, "constructor", 0, TRUE, FALSE)

\* kinds of setTimeout callbacks and of requests of AppLock
LockTimerKinds == {"hide", "show", "autoVerify", "clearDigits"}
LockRequestKinds == {"init", "status", "verifyPIN", "verifyPassword", "useBiometrics"}
LockDone(n, op, outcome) == [n |-> n, op |-> op, outcome |-> outcome]

\* AppLock when DOMContentLoaded has called init(): the status request is
\* outstanding, the overlay of the page is not shown
LockConstructed ==
    /\ digits = << >>
    /\ isEnabled = FALSE
    /\ isLocked = FALSE
    /\ isVerifying = FALSE
    /\ overlay = [hidden |-> TRUE, opacity0 |-> TRUE]
    /\ lockTimers = [k \in LockTimerKinds |-> 0]
    /\ lockInflight = [k \in LockRequestKinds |-> IF k = "init" THEN 1 ELSE 0]
    /\ lockEvents = 0
    /\ lastLock = LockDone(0, "DOMContentLoaded", "none")

\* the gallery after DOMContentLoaded: the state literal, no search made;
\* the popular images of the start page belong to no query
GalleryRequest(req, kind, page) == [req |-> req, kind |-> kind, page |-> page]
GalleryDone(req, op, ok) == [req |-> req, op |-> op, ok |-> ok]
GalleryLoaded ==
    /\ currentPage = 1
    /\ currentSearchQuery = ""
    /\ loadMoreHidden = FALSE
    /\ galleryInflight = {}
    /\ galleryRequests = 0
    /\ lastDisplayed = 0
    /\ lastGallery = GalleryDone(0, "DOMContentLoaded", TRUE)

\* UI.init: an app-container carrying a conversation id starts a history
\* load at once; otherwise nothing is active and State.pagination is absent
Init ==
    /\ transcript = << >>
    /\ scrollTop = 0
    /\ exhausted = FALSE
    /\ scenario = TRUE
    /\ PollIdle
    /\ RenderIdle
    /\ StreamIdle
    /\ NotifConstructed
    /\ LockConstructed
    /\ GalleryLoaded
    /\ \/ /\ currentConversationId = null
          /\ pagination = undefined
          /\ inflight = {}
          /\ fetchCount = 0
          /\ latestHistory = 0
          /\ lastOp = Op("init", null, TRUE, NoToast)
       \/ \E c \in Conversations :
          /\ currentConversationId = c
          /\ pagination = ResetPagination
          /\ inflight = {HistoryFetch(1, c)}
          /\ fetchCount = 1
          /\ latestHistory = 1
          /\ lastOp = Op("init", c, TRUE, NoToast)

(* ------------------------------ actions -------------------------------- *)

\* loadConversationHistory that keeps the cursor of the previous conversation
loadConversationHistoryCallKeepsCursor(c) ==
    /\ pagination' = pagination
    /\ inflight' = inflight \cup {HistoryFetch(fetchCount + 1, c)}
    /\ fetchCount' = fetchCount + 1
    /\ latestHistory' = fetchCount + 1

\* loadConversationHistory up to its await: reset the cursor, issue page 1
loadConversationHistoryCall(c) ==
    /\ pagination' = ResetPagination
    /\ inflight' = inflight \cup {HistoryFetch(fetchCount + 1, c)}
    /\ fetchCount' = fetchCount + 1
    /\ latestHistory' = fetchCount + 1

\* a setActiveConversation without the early return for the active id
setActiveConversationAlwaysLoads(id, pushState) ==
    /\ fetchCount < MaxFetches
    /\ currentConversationId' = id
    /\ loadConversationHistoryCall(id)
    /\ lastOp' = IF pushState
                 THEN Pushed(Op("setActiveConversation", id, TRUE, NoToast))
                 ELSE Op("setActiveConversation", id, TRUE, NoToast)
    /\ exhausted' = FALSE
    /\ scenario' = (scenario /\ fetchCount = 0)
    /\ UNCHANGED <<transcript, scrollTop>>
    /\ UNCHANGED notChat

\* setActiveConversation(id, pushState): a click in the sidebar (pushState
\* true) or a popstate marker (pushState false)
setActiveConversation(id, pushState) ==
    IF currentConversationId = id
    THEN /\ lastOp' = Op("setActiveConversation", id, FALSE, NoToast)
         /\ UNCHANGED <<currentConversationId, pagination, transcript, scrollTop,
                        inflight, fetchCount, latestHistory, exhausted, scenario>>
         /\ UNCHANGED notChat
    ELSE /\ fetchCount < MaxFetches
         /\ currentConversationId' = id
         /\ loadConversationHistoryCall(id)
         /\ lastOp' = IF pushState
                      THEN Pushed(Op("setActiveConversation", id, TRUE, NoToast))
                      ELSE Op("setActiveConversation", id, TRUE, NoToast)
         /\ exhausted' = FALSE
         /\ scenario' = (scenario /\ fetchCount = 0)
         /\ UNCHANGED <<transcript, scrollTop>>
         /\ UNCHANGED notChat

\* clearActiveConversation: innerHTML = '' leaves nothing to scroll
clearActiveConversation ==
    /\ currentConversationId' = null
    /\ transcript' = << >>
    /\ scrollTop' = 0

\* the #newChat click handler: clearActiveConversation, then pushState
newChat ==
    /\ clearActiveConversation
    /\ lastOp' = Pushed(Op("newChat", null, TRUE, NoToast))
    /\ scenario' = FALSE
    /\ UNCHANGED <<pagination, inflight, fetchCount, latestHistory, exhausted>>
    /\ UNCHANGED notChat

\* last segment of window.location.pathname: '/defAI', '/ai/chat', '/'
PathSegments == {"defAI", "chat", ""}

\* the popstate listener: marker is event.state.conversationId (null when the
\* state carries none), linkOrId the last segment of the path
popstate(marker, linkOrId) ==
    IF marker # null
    THEN setActiveConversation(marker, FALSE)
    ELSE IF linkOrId # "" /\ linkOrId # "chat" /\ linkOrId = "chat"
    THEN /\ clearActiveConversation
         /\ lastOp' = Op("popstate", null, TRUE, NoToast)
         /\ scenario' = FALSE
         /\ UNCHANGED <<pagination, inflight, fetchCount, latestHistory, exhausted>>
         /\ UNCHANGED notChat
    ELSE /\ lastOp' = Op("popstate", null, FALSE, NoToast)
         /\ UNCHANGED <<currentConversationId, pagination, transcript, scrollTop,
                        inflight, fetchCount, latestHistory, exhausted, scenario>>
         /\ UNCHANGED notChat

\* an early return that does not look at isLoading
loadMoreMessagesReturnsEarlyIgnoresLoading ==
    \/ currentConversationId = null
    \/ ~pagination.hasMore

\* the early return of loadMoreMessages
loadMoreMessagesReturnsEarly ==
    \/ currentConversationId = null
    \/ ~pagination.hasMore
    \/ pagination.isLoading

\* the guard of loadMoreMessages reads State.pagination.hasMore once the
\* conversation id proved truthy: a TypeError when State.pagination is absent
loadMoreMessagesThrows ==
    /\ currentConversationId # null
    /\ pagination = undefined

\* loadMoreMessages up to its await; the TypeError of the guard rejects the
\* promise the scroll listener drops
loadMoreMessages ==
    IF loadMoreMessagesThrows
    THEN /\ lastOp' = Op("loadMoreMessagesRejected", currentConversationId, FALSE, NoToast)
         /\ UNCHANGED <<currentConversationId, pagination, transcript,
                        inflight, fetchCount, latestHistory, exhausted, scenario>>
    ELSE IF loadMoreMessagesReturnsEarly
    THEN /\ lastOp' = Op("loadMoreMessages", currentConversationId, FALSE, NoToast)
         /\ UNCHANGED <<currentConversationId, pagination, transcript,
                        inflight, fetchCount, latestHistory, exhausted, scenario>>
    ELSE /\ fetchCount < MaxFetches
         /\ pagination' = [pagination EXCEPT !.isLoading = TRUE]
         /\ inflight' = inflight \cup
                {MoreFetch(fetchCount + 1, currentConversationId,
                           pagination.page + 1, scrollHeight(transcript))}
         /\ fetchCount' = fetchCount + 1
         /\ lastOp' = Op("loadMoreMessages", currentConversationId, TRUE, NoToast)
         /\ scenario' = (scenario /\ inflight = {})
         /\ UNCHANGED <<currentConversationId, transcript, latestHistory, exhausted>>

\* where the user scrolls the container to: the top or the bottom
ScrollOffsets == {0, MaxScrollTop(transcript)}

\* the scroll listener of elements.messages: loadMoreMessages at scrollTop 0
scrollListener(y) ==
    /\ scrollTop' = y
    /\ UNCHANGED notChat
    /\ IF y = 0
       THEN loadMoreMessages
       ELSE /\ lastOp' = Op("scroll", currentConversationId, FALSE, NoToast)
            /\ UNCHANGED <<currentConversationId, pagination, transcript,
                           inflight, fetchCount, latestHistory, exhausted, scenario>>

\* the cursor after loadConversationHistory read data.pagination
HistoryPagination(cur, p) ==
    IF p.present
    THEN [cur EXCEPT !.page = p.page, !.hasMore = p.has_more]
    ELSE cur

\* loadConversationHistory after its await
loadConversationHistoryResume(f, r) ==
    /\ f \in inflight
    /\ f.kind = "history"
    /\ inflight' = inflight \ {f}
    /\ IF r.ok
       THEN /\ pagination' = HistoryPagination(pagination, r.pagination)
            /\ transcript' = BackendPage(f.conv, f.page)
            /\ scrollTop' = MaxScrollTop(transcript')
            /\ lastOp' = Op("loadConversationHistoryResume", f.conv, TRUE, NoToast)
       ELSE /\ lastOp' = Op("loadConversationHistoryResume", f.conv, FALSE, HistoryToast)
            /\ UNCHANGED <<pagination, transcript, scrollTop>>
    /\ scenario' = (scenario /\ r = Truthful(f))
    /\ UNCHANGED <<currentConversationId, fetchCount, latestHistory, exhausted>>
    /\ UNCHANGED notChat

\* the cursor after loadMoreMessages read data.pagination
MorePagination(cur, p) ==
    IF p.present
    THEN [cur EXCEPT !.page = p.page, !.hasMore = p.has_more]
    ELSE [cur EXCEPT !.hasMore = FALSE]

\* the order in which loadMoreMessages renders a page: messages.reverse()
\* reverses the array in place before the fragment is built from it
MoreRenderOrder(msgs) == Reverse(msgs)

\* a loadMoreMessages without the finally block
MoreFinallyMissing(cur) == cur

\* a finally block that also closes the cursor
MoreFinallyClosesCursor(cur) == [cur EXCEPT !.isLoading = FALSE, !.hasMore = FALSE]

\* the finally block of loadMoreMessages
MoreFinally(cur) == [cur EXCEPT !.isLoading = FALSE]

\* loadMoreMessages after its await
loadMoreMessagesResume(f, r) ==
    /\ f \in inflight
    /\ f.kind = "more"
    /\ inflight' = inflight \ {f}
    /\ IF r.ok
       THEN /\ pagination' = MoreFinally(MorePagination(pagination, r.pagination))
            /\ transcript' = MoreRenderOrder(BackendPage(f.conv, f.page)) \o transcript
            /\ scrollTop' = ClampScroll(scrollHeight(transcript') - f.height, transcript')
            /\ exhausted' = (exhausted \/ ~r.pagination.present)
            /\ lastOp' = Op("loadMoreMessagesResume", f.conv, TRUE, NoToast)
       ELSE /\ pagination' = MoreFinally(pagination)
            /\ lastOp' = Op("loadMoreMessagesResume", f.conv, FALSE, MoreToast)
            /\ UNCHANGED <<transcript, scrollTop, exhausted>>
    /\ scenario' = (scenario /\ r = Truthful(f))
    /\ UNCHANGED <<currentConversationId, fetchCount, latestHistory>>
    /\ UNCHANGED notChat

\* the session history entries back/forward can pop: {conversationId: id} was
\* pushed with '/defAI'; the entry of the page load and the {} of New chat
\* carry no marker
PopEntries ==
    [marker : Conversations, path : {"defAI"}] \cup
    [marker : {null}, path : PathSegments]

Fetches ==
    [id : 1..MaxFetches, kind : {"history", "more"}, conv : Conversations,
     page : 1..(MaxPage + 1), height : 0..(ClientHeight + MaxFetches * PageSize)]

Next ==
    \/ \E id \in Conversations : setActiveConversation(id, TRUE)
    \/ newChat
    \/ \E e \in PopEntries : popstate(e.marker, e.path)
    \/ \E y \in ScrollOffsets : scrollListener(y)
    \/ \E f \in inflight, r \in Responses : loadConversationHistoryResume(f, r)
    \/ \E f \in inflight, r \in Responses : loadMoreMessagesResume(f, r)

Spec == Init /\ [][Next]_vars

TypeOK ==
    /\ currentConversationId \in {null} \cup Conversations
    /\ pagination \in [page : 0..MaxPage, hasMore : BOOLEAN, isLoading : BOOLEAN]
    /\ inflight \subseteq Fetches
    /\ fetchCount \in 0..MaxFetches
    /\ latestHistory \in 0..fetchCount
    /\ scrollTop \in 0..MaxScrollTop(transcript)
    /\ exhausted \in BOOLEAN
    /\ scenario \in BOOLEAN

\* a fetch settles eventually (the browser resolves or rejects every fetch),
\* so each continuation runs once its fetch is outstanding
LiveSpec ==
    /\ Spec
    /\ WF_vars(\E f \in inflight, r \in Responses : loadConversationHistoryResume(f, r))
    /\ WF_vars(\E f \in inflight, r \in Responses : loadMoreMessagesResume(f, r))

(* --------------------------- message formatter ------------------------ *)

\* A content string is a sequence of atoms: a word without spaces, a single
\* space, a piece of raw HTML, or one of the words of the marker text.
\* '[Image en cours de generation: ' of imagePattern
MarkerPrefix ==
    <<"[Image", " ", "en", " ", "cours", " ", "de", " ", "generation:", " ">>

Filenames == {<<"f.png">>, <<"g.png">>}

Marker(filename) == MarkerPrefix \o filename \o <<"]">>

\* what a content is made of: a word, a space, raw HTML that the allow-list
\* of createMessageElement rejects, a marker, a marker that is never closed
Segments ==
    {<<"word">>, <<" ">>, <<"<script>">>, MarkerPrefix} \cup
    {Marker(filename) : filename \in Filenames}

RECURSIVE Flatten(_)
Flatten(ss) == IF ss = << >> THEN << >> ELSE Head(ss) \o Flatten(Tail(ss))

Contents ==
    {Flatten(ss) : ss \in UNION {[1..n -> Segments] : n \in 0..MaxSegments}}

\* markup items: text that was not parsed yet, inert text, an HTML element
\* written by the content, and the .ai-image-container of formatAIContent
\* whose <img> carries onerror and onload attributes
Item(tag, atom, filename, taskId, handlers) ==
    [tag |-> tag, atom |-> atom, filename |-> filename, taskId |-> taskId,
     handlers |-> handlers]
Unparsed(atom) == Item("unparsed", atom, << >>, "", FALSE)
Text(atom) == Item("text", atom, << >>, "", FALSE)
Element(atom) == Item("element", atom, << >>, "", FALSE)
Placeholder(filename, taskId) == Item("placeholder", "", filename, taskId, TRUE)

\* a lookup that takes the first attachment whatever its name is
TaskIdOfIgnoresName(attachments, filename) ==
    IF attachments = << >> THEN "" ELSE Head(attachments).task_id

\* (attachments || []).find(a => a.name === filename), then
\* att ? att.task_id : ''
RECURSIVE TaskIdOf(_, _)
TaskIdOf(attachments, filename) ==
    IF attachments = << >> THEN ""
    ELSE IF Head(attachments).name = filename THEN Head(attachments).task_id
    ELSE TaskIdOf(Tail(attachments), filename)

\* imagePattern matches at i: the literal prefix, then [^\]]+ up to the
\* next ']'.  The result is the index of that ']', or 0 without a match.
MatchAt(content, i) ==
    LET start == i + Len(MarkerPrefix)
        closes == {j \in start..Len(content) : content[j] = "]"}
    IN  IF /\ start - 1 <= Len(content)
           /\ SubSeq(content, i, start - 1) = MarkerPrefix
           /\ closes # {}
           /\ (CHOOSE j \in closes : \A k \in closes : j <= k) > start
        THEN CHOOSE j \in closes : \A k \in closes : j <= k
        ELSE 0

\* processed.replace(imagePattern, ...) from position i on
RECURSIVE ReplaceFrom(_, _, _)
ReplaceFrom(content, i, attachments) ==
    IF i > Len(content) THEN << >>
    ELSE IF MatchAt(content, i) # 0
    THEN LET j == MatchAt(content, i)
             filename == SubSeq(content, i + Len(MarkerPrefix), j - 1)
         IN  <<Placeholder(filename, TaskIdOf(attachments, filename))>>
                 \o ReplaceFrom(content, j + 1, attachments)
    ELSE <<Unparsed(content[i])>> \o ReplaceFrom(content, i + 1, attachments)

formatAIContent(content, attachments) == ReplaceFrom(content, 1, attachments)

\* marked.parse: text becomes text, raw HTML of the input stays HTML
markedParse(markup) ==
    [k \in 1..Len(markup) |->
        IF markup[k].tag # "unparsed" THEN markup[k]
        ELSE IF markup[k].atom = "<script>" THEN Element(markup[k].atom)
        ELSE Text(markup[k].atom)]

\* DOMPurify.sanitize with ALLOWED_TAGS / ALLOWED_ATTR: script is not an
\* allowed tag, onerror and onload are not allowed attributes
RECURSIVE sanitize(_)
sanitize(markup) ==
    IF markup = << >> THEN << >>
    ELSE LET item == Head(markup)
         IN  IF item.tag = "element" /\ item.atom = "<script>"
             THEN sanitize(Tail(markup))
             ELSE <<[item EXCEPT !.handlers = FALSE]>> \o sanitize(Tail(markup))

\* escapeHtml: every atom becomes inert text
escapeHtml(content) == [k \in 1..Len(content) |-> Text(content[k])]

\* createMessageElement(content, isUser, attachments): the markup written
\* with innerHTML
createMessageElement(content, isUser, attachments) ==
    IF isUser THEN escapeHtml(content)
    ELSE sanitize(markedParse(formatAIContent(content, attachments)))

\* const isUser of the forEach of loadConversationHistory / loadMoreMessages
isUser(msg, user_id) ==
    \/ msg.sender_id = (IF user_id # 0 THEN user_id ELSE 0)
    \/ msg.message_type = "user"

\* message_type values of the backend: 'user' and one value for the replies
MessageTypes == {"user", "ai"}

\* messages.forEach(msg => ... createMessageElement(msg.content, isUser)):
\* one message of a history page; no attachments are passed
renderMessage(msg, user_id) ==
    /\ renderMsg' = [content |-> msg.content, sender_id |-> msg.sender_id,
                     message_type |-> msg.message_type, user_id |-> user_id]
    /\ renderNode' = [isUser |-> isUser(msg, user_id),
                      markup |-> createMessageElement(msg.content,
                                                      isUser(msg, user_id), << >>)]
    /\ UNCHANGED notRender

\* every message carries a sender id; user_id 0 stands for a data.user_id
\* that is absent or falsy
RenderNext ==
    \E msg \in [content : Contents, sender_id : 1..NumUsers,
                 message_type : MessageTypes],
       user_id \in 0..NumUsers : renderMessage(msg, user_id)

RenderSpec == Init /\ [][RenderNext]_vars

(* ------------------- submission and stream presenter ------------------ *)

TaskIds == {"t1", "t2"}

\* data.attachments of a chat response
AttachmentLists ==
    UNION {[1..n -> [name : Filenames, task_id : TaskIds]] : n \in 0..MaxAttachments}

\* input.value
InputTexts == UNION {[1..n -> {"h", " "}] : n \in 0..MaxInputLen}

\* String.prototype.trim
RECURSIVE trim(_)
trim(text) ==
    IF text = << >> THEN << >>
    ELSE IF Head(text) = " " THEN trim(Tail(text))
    ELSE IF text[Len(text)] = " " THEN trim(SubSeq(text, 1, Len(text) - 1))
    ELSE text

\* content.split(/ +/): a run of spaces is one separator
RECURSIVE SplitOnRuns(_)
SplitOnRuns(text) ==
    LET spaces == {k \in 1..Len(text) : text[k] = " "}
    IN  IF spaces = {} THEN <<text>>
        ELSE LET k == CHOOSE x \in spaces : \A y \in spaces : x <= y
                 others == {x \in (k + 1)..Len(text) : text[x] # " "}
                 next == IF others = {} THEN Len(text) + 1
                         ELSE CHOOSE x \in others : \A y \in others : x <= y
             IN  <<SubSeq(text, 1, k - 1)>>
                     \o SplitOnRuns(SubSeq(text, next, Len(text)))

\* content.split(' '): the pieces between single spaces, empty pieces kept
RECURSIVE Split(_)
Split(text) ==
    LET spaces == {k \in 1..Len(text) : text[k] = " "}
    IN  IF spaces = {} THEN <<text>>
        ELSE LET k == CHOOSE x \in spaces : \A y \in spaces : x <= y
             IN  <<SubSeq(text, 1, k - 1)>> \o Split(SubSeq(text, k + 1, Len(text)))

\* children of elements.messages that handleSubmit creates
Node(conv, kind, text) == [conv |-> conv, kind |-> kind, text |-> text]
UserNode(conv, message) == Node(conv, "user", escapeHtml(message))
TypingIndicator == Node(null, "typing", << >>)
StreamNode(conv) == Node(conv, "ai", << >>)
ErrorNode(conv) == Node(conv, "error", << >>)

\* typingObj.remove()
Remove(nodes, node) == SelectSeq(nodes, LAMBDA x : x # node)

\* the pollImageStatus calls of a forEach over the .ai-image-container
\* elements of the markup, from item k on: one for each non-empty taskId
RECURSIVE PollCalls(_, _, _, _)
PollCalls(markup, k, caller, at) ==
    IF k > Len(markup) THEN << >>
    ELSE IF markup[k].tag = "placeholder" /\ markup[k].taskId # ""
    THEN <<[index |-> k, taskId |-> markup[k].taskId, caller |-> caller,
            revealed |-> at]>> \o PollCalls(markup, k + 1, caller, at)
    ELSE PollCalls(markup, k + 1, caller, at)

TokenDelays == TokenDelayMin..TokenDelayMax

\* a handleSubmit that leaves the user message to the backend echo
handleSubmitEchoLater(text, pending) ==
    IF isTyping \/ (trim(text) = << >> /\ pending = << >>)
    THEN /\ lastOp' = Op("handleSubmit", currentConversationId, FALSE, NoToast)
         /\ UNCHANGED <<currentConversationId, pagination, transcript, scrollTop,
                        inflight, fetchCount, latestHistory, exhausted, scenario>>
         /\ UNCHANGED <<notStream, streamVars>>
    ELSE /\ transcript' = Append(transcript, TypingIndicator)
         /\ scrollTop' = MaxScrollTop(transcript')
         /\ isTyping' = TRUE
         /\ submitPc' = "request"
         /\ submitConv' = currentConversationId
         /\ submitted' = [message |-> trim(text), pending |-> pending]
         /\ submitLog' = << >>
         /\ submits' = submits + 1
         /\ lastOp' = Op("handleSubmit", currentConversationId, TRUE, NoToast)
         /\ scenario' = FALSE
         /\ UNCHANGED <<currentConversationId, pagination, inflight, fetchCount,
                        latestHistory, exhausted>>
         /\ UNCHANGED <<streamPc, streamContent, streamAttachments, revealed,
                        currentText, contentDiv, untilToken, untilElement, polls>>
         /\ UNCHANGED notStream

\* handleSubmit up to its await fetch: text is input.value, pending is
\* State.pendingAttachments
handleSubmit(text, pending) ==
    IF isTyping \/ (trim(text) = << >> /\ pending = << >>)
    THEN /\ lastOp' = Op("handleSubmit", currentConversationId, FALSE, NoToast)
         /\ UNCHANGED <<currentConversationId, pagination, transcript, scrollTop,
                        inflight, fetchCount, latestHistory, exhausted, scenario>>
         /\ UNCHANGED <<notStream, streamVars>>
    ELSE /\ transcript' =
                (IF trim(text) # << >>
                 THEN Append(transcript, UserNode(currentConversationId, trim(text)))
                 ELSE transcript) \o <<TypingIndicator>>
         /\ scrollTop' = MaxScrollTop(transcript')
         /\ isTyping' = TRUE
         /\ submitPc' = "request"
         /\ submitConv' = currentConversationId
         /\ submitted' = [message |-> trim(text), pending |-> pending]
         /\ submitLog' = IF trim(text) # << >>
                         THEN <<UserNode(currentConversationId, trim(text))>>
                         ELSE << >>
         /\ submits' = submits + 1
         /\ lastOp' = Op("handleSubmit", currentConversationId, TRUE, NoToast)
         /\ scenario' = FALSE
         /\ UNCHANGED <<currentConversationId, pagination, inflight, fetchCount,
                        latestHistory, exhausted>>
         /\ UNCHANGED <<streamPc, streamContent, streamAttachments, revealed,
                        currentText, contentDiv, untilToken, untilElement, polls>>
         /\ UNCHANGED notStream

\* typeAIStream(content, container, attachments) up to its first await: the
\* empty AI node is appended to base, the first token is revealed
typeAIStream(content, base, conv, attachments) ==
    /\ streamContent' = content
    /\ streamAttachments' = attachments
    /\ revealed' = 1
    /\ currentText' = Split(content)[1] \o <<" ">>
    /\ contentDiv' = markedParse(formatAIContent(currentText', attachments))
    /\ transcript' = Append(base, StreamNode(conv))
    /\ scrollTop' = MaxScrollTop(transcript')
    /\ untilToken' \in TokenDelays
    /\ untilElement' = ElementPollDelay
    /\ polls' = << >>
    /\ streamPc' = "delay"

\* 'Je ne sais pas quoi repondre. veuillez reessayer', its first words
DefaultReply == <<"Je", " ", "ne">>

ChatToast == "Network response was not ok"

\* a continuation whose catch block is not followed by the finally block
handleSubmitResumeWithoutFinally(r) ==
    /\ submitPc = "request"
    /\ untilElement < 0
    /\ IF r.kind = "ok"
       THEN /\ currentConversationId' =
                   IF r.conversation_id # null THEN r.conversation_id
                   ELSE currentConversationId
            /\ typeAIStream(IF r.content # << >> THEN r.content ELSE DefaultReply,
                            Remove(transcript, TypingIndicator),
                            currentConversationId', r.attachments)
            /\ submitPc' = "stream"
            /\ submitLog' = Append(submitLog, StreamNode(currentConversationId'))
            /\ lastOp' = Op("handleSubmitResume", currentConversationId', TRUE, NoToast)
            /\ UNCHANGED isTyping
       ELSE /\ currentConversationId' =
                   IF r.kind = "nonstring" /\ r.conversation_id # null
                   THEN r.conversation_id
                   ELSE currentConversationId
            /\ transcript' = Append(Remove(transcript, TypingIndicator),
                                    ErrorNode(currentConversationId'))
            /\ scrollTop' = MaxScrollTop(transcript')
            /\ isTyping' = isTyping
            /\ submitPc' = "idle"
            /\ submitLog' = Append(submitLog, ErrorNode(currentConversationId'))
            /\ lastOp' = IF r.kind = "nonstring"
                         THEN Op("typeAIStreamThrows", currentConversationId', FALSE,
                                 NoToast)
                         ELSE Op("handleSubmitResume", currentConversationId, FALSE,
                                 IF r.kind = "non2xx" THEN ChatToast ELSE NoToast)
            /\ UNCHANGED <<streamPc, streamContent,
                           streamAttachments, revealed, currentText, contentDiv,
                           untilToken, untilElement, polls>>
    /\ UNCHANGED <<pagination, inflight, fetchCount, latestHistory, exhausted,
                   scenario, submitConv, submitted, submits>>
    /\ UNCHANGED notStream

\* handleSubmit after its await fetch: r is what the chat request settled to.
\* A body whose response field is not a string (kind nonstring) makes
\* content.split of typeAIStream throw before the AI node is made; the throw
\* and the throw after a non-2xx answer end in the catch and finally blocks.
handleSubmitResume(r) ==
    /\ submitPc = "request"
    /\ untilElement < 0
    /\ IF r.kind = "ok"
       THEN /\ currentConversationId' =
                   IF r.conversation_id # null THEN r.conversation_id
                   ELSE currentConversationId
            /\ typeAIStream(IF r.content # << >> THEN r.content ELSE DefaultReply,
                            Remove(transcript, TypingIndicator),
                            currentConversationId', r.attachments)
            /\ submitPc' = "stream"
            /\ submitLog' = Append(submitLog, StreamNode(currentConversationId'))
            /\ lastOp' = Op("handleSubmitResume", currentConversationId', TRUE, NoToast)
            /\ UNCHANGED isTyping
       ELSE /\ currentConversationId' =
                   IF r.kind = "nonstring" /\ r.conversation_id # null
                   THEN r.conversation_id
                   ELSE currentConversationId
            /\ transcript' = Append(Remove(transcript, TypingIndicator),
                                    ErrorNode(currentConversationId'))
            /\ scrollTop' = MaxScrollTop(transcript')
            /\ isTyping' = FALSE
            /\ submitPc' = "idle"
            /\ submitLog' = Append(submitLog, ErrorNode(currentConversationId'))
            /\ lastOp' = IF r.kind = "nonstring"
                         THEN Op("typeAIStreamThrows", currentConversationId', FALSE,
                                 NoToast)
                         ELSE Op("handleSubmitResume", currentConversationId, FALSE,
                                 IF r.kind = "non2xx" THEN ChatToast ELSE NoToast)
            /\ UNCHANGED <<streamPc, streamContent,
                           streamAttachments, revealed, currentText, contentDiv,
                           untilToken, untilElement, polls>>
    /\ UNCHANGED <<pagination, inflight, fetchCount, latestHistory, exhausted,
                   scenario, submitConv, submitted, submits>>
    /\ UNCHANGED notStream

\* the timers after the delay of typeAIStream ran out: the time of the
\* element timer is kept only while that timer is pending
TokenTimerDue == untilElement < 0 \/ untilToken <= untilElement
AfterToken(last) ==
    IF untilElement < 0
    THEN /\ untilElement' = -1
         /\ untilToken' = 0
    ELSE /\ untilElement' = untilElement - untilToken
         /\ IF last THEN untilToken' = 0 ELSE untilToken' \in TokenDelays

\* an iteration that does not append the separator
typeAIStreamStepNoSeparator ==
    /\ streamPc = "delay"
    /\ revealed < Len(Split(streamContent))
    /\ TokenTimerDue
    /\ revealed' = revealed + 1
    /\ currentText' = currentText \o Split(streamContent)[revealed + 1]
    /\ contentDiv' = markedParse(formatAIContent(currentText', streamAttachments))
    /\ scrollTop' = MaxScrollTop(transcript)
    /\ AfterToken(FALSE)
    /\ UNCHANGED <<currentConversationId, pagination, transcript, inflight,
                   fetchCount, latestHistory, lastOp, exhausted, scenario>>
    /\ UNCHANGED <<isTyping, submitPc, submitConv, submitted, submitLog, submits, streamPc,
                   streamContent, streamAttachments, polls>>
    /\ UNCHANGED notStream

\* an iteration that starts the poll loops of the placeholders it revealed
typeAIStreamStepPollsEarly ==
    /\ streamPc = "delay"
    /\ revealed < Len(Split(streamContent))
    /\ TokenTimerDue
    /\ revealed' = revealed + 1
    /\ currentText' = currentText \o Split(streamContent)[revealed + 1] \o <<" ">>
    /\ contentDiv' = markedParse(formatAIContent(currentText', streamAttachments))
    /\ polls' = polls \o PollCalls(contentDiv', 1, "typeAIStream", revealed')
    /\ scrollTop' = MaxScrollTop(transcript)
    /\ AfterToken(FALSE)
    /\ UNCHANGED <<currentConversationId, pagination, transcript, inflight,
                   fetchCount, latestHistory, lastOp, exhausted, scenario>>
    /\ UNCHANGED <<isTyping, submitPc, submitConv, submitted, submitLog, submits, streamPc,
                   streamContent, streamAttachments>>
    /\ UNCHANGED notStream

\* one more iteration of the for loop of typeAIStream, after the delay
typeAIStreamStep ==
    /\ streamPc = "delay"
    /\ revealed < Len(Split(streamContent))
    /\ TokenTimerDue
    /\ revealed' = revealed + 1
    /\ currentText' = currentText \o Split(streamContent)[revealed + 1] \o <<" ">>
    /\ contentDiv' = markedParse(formatAIContent(currentText', streamAttachments))
    /\ scrollTop' = MaxScrollTop(transcript)
    /\ AfterToken(FALSE)
    /\ UNCHANGED <<currentConversationId, pagination, transcript, inflight,
                   fetchCount, latestHistory, lastOp, exhausted, scenario>>
    /\ UNCHANGED <<isTyping, submitPc, submitConv, submitted, submitLog, submits, streamPc,
                   streamContent, streamAttachments, polls>>
    /\ UNCHANGED notStream

\* the loop of typeAIStream is over: the poll loops start, and handleSubmit
\* runs to its end (scrollToBottom, finally isTyping = false)
typeAIStreamEnd ==
    /\ streamPc = "delay"
    /\ revealed = Len(Split(streamContent))
    /\ TokenTimerDue
    /\ polls' = polls \o PollCalls(contentDiv, 1, "typeAIStream", revealed)
    /\ streamPc' = "done"
    /\ AfterToken(TRUE)
    /\ scrollTop' = MaxScrollTop(transcript)
    /\ isTyping' = FALSE
    /\ submitPc' = "idle"
    /\ UNCHANGED <<currentConversationId, pagination, transcript, inflight,
                   fetchCount, latestHistory, lastOp, exhausted, scenario>>
    /\ UNCHANGED <<submitConv, submitted, submitLog, submits, streamContent,
                   streamAttachments, revealed, currentText, contentDiv>>
    /\ UNCHANGED notStream

\* the setTimeout callback of the createMessageElement call of typeAIStream:
\* it polls the containers the node holds when it fires
createMessageElementTimeout ==
    /\ untilElement >= 0
    /\ streamPc = "done" \/ untilElement <= untilToken
    /\ polls' = polls \o PollCalls(contentDiv, 1, "createMessageElement", revealed)
    /\ untilElement' = -1
    /\ untilToken' = 0
    /\ UNCHANGED chatVars
    /\ UNCHANGED <<isTyping, submitPc, submitConv, submitted, submitLog, submits, streamPc,
                   streamContent, streamAttachments, revealed, currentText,
                   contentDiv>>
    /\ UNCHANGED notStream

\* what a chat request settles to: rejected, a non-2xx answer, or a JSON
\* body (ok, or nonstring when its response field is a truthy value that is
\* not a string); conversation_id null stands for a body without the field
ChatResponse(kind, conversation_id, content, attachments) ==
    [kind |-> kind, conversation_id |-> conversation_id, content |-> content,
     attachments |-> attachments]

\* the conversation ids a backend answers a request for conversation c with
ReplyConversations(c) == IF c = null THEN Conversations ELSE {c}

\* one submission and its reply, the reply drawn from every content and
\* attachment list
StreamNext ==
    \/ submits < MaxSubmits /\ handleSubmit(<<"h">>, << >>)
    \/ \E c \in Contents, a \in AttachmentLists, id \in ReplyConversations(submitConv) :
           handleSubmitResume(ChatResponse("ok", id, c, a))
    \/ typeAIStreamStep
    \/ typeAIStreamEnd
    \/ createMessageElementTimeout

\* the page was opened on a conversation
StreamInit == Init /\ currentConversationId = 1

StreamSpec == StreamInit /\ [][StreamNext]_vars

\* replies of one token and of two tokens
ReplyContents == {<<"word">>, <<"word", " ", "word">>}

ChatResponses ==
    {ChatResponse(kind, null, << >>, << >>) : kind \in {"rejected", "non2xx"}} \cup
    {ChatResponse("ok", id, c, << >>) :
        id \in ReplyConversations(submitConv) \cup {null}, c \in ReplyContents} \cup
    {ChatResponse("nonstring", id, << >>, << >>) :
        id \in ReplyConversations(submitConv) \cup {null}}

\* submissions while the user selects conversations, starts new chats and
\* scrolls the transcript
SubmitNext ==
    \/ \E text \in InputTexts, pending \in {<< >>, <<"file">>} :
           submits < MaxSubmits /\ handleSubmit(text, pending)
    \/ \E r \in ChatResponses : handleSubmitResume(r)
    \/ typeAIStreamStep
    \/ typeAIStreamEnd
    \/ createMessageElementTimeout
    \/ \E id \in Conversations :
           fetchCount < SubmitFetches /\ setActiveConversation(id, TRUE)
    \/ newChat
    \/ \E f \in inflight :
           \E r \in {Truthful(f), [ok |-> FALSE, pagination |-> NoPagination]} :
               loadConversationHistoryResume(f, r)
    \/ \E y \in ScrollOffsets : fetchCount < SubmitFetches /\ scrollListener(y)
    \/ \E f \in inflight :
           \E r \in {Truthful(f), [ok |-> FALSE, pagination |-> NoPagination]} :
               loadMoreMessagesResume(f, r)

SubmitSpec == Init /\ [][SubmitNext]_vars

\* submissions the user makes one after the other in one behaviour
TypingSubmits == 2

\* the form is submitted again and again while replies arrive and are revealed
TypingNext ==
    \/ \E text \in InputTexts :
           submits < TypingSubmits /\ handleSubmit(text, << >>)
    \/ \E r \in ChatResponses : handleSubmitResume(r)
    \/ typeAIStreamStep
    \/ typeAIStreamEnd
    \/ createMessageElementTimeout

TypingSpec == Init /\ [][TypingNext]_vars

\* the chat request settles eventually (the browser resolves or rejects
\* every fetch) and every timer that was set fires
LiveTypingSpec ==
    /\ TypingSpec
    /\ WF_vars(\E r \in ChatResponses : handleSubmitResume(r))
    /\ WF_vars(typeAIStreamStep)
    /\ WF_vars(typeAIStreamEnd)
    /\ WF_vars(createMessageElementTimeout)

StreamTypeOK ==
    /\ isTyping \in BOOLEAN
    /\ submitPc \in {"idle", "request", "stream"}
    /\ streamPc \in {"idle", "delay", "done"}
    /\ submits \in 0..TypingSubmits
    /\ revealed \in 0..Len(Split(streamContent))
    /\ untilToken \in 0..TokenDelayMax
    /\ untilElement \in -1..ElementPollDelay

(* ------------------------- deferred image poller ----------------------- *)

\* data.status values of /api/ai/image-status/<taskId>; every value other
\* than completed and failed takes the same path as pending
Statuses == {"pending", "completed", "failed"}

PollTerminal == {"completed", "failed", "timedOut"}

\* pollImageStatus(taskId, container): attempts = 0, then check() runs up to
\* its await axios.get
pollImageStatus ==
    /\ pollPc = "idle"
    /\ pollPc' = "request"
    /\ attempts' = 0
    /\ pollDelay' = 0
    /\ observed' = "none"
    /\ UNCHANGED notPoll

\* the continuation of check with attempts < maxAttempts written as <=
checkResumeOneCheckMore(status) ==
    /\ pollPc = "request"
    /\ observed' = status
    /\ IF status = "completed"
       THEN /\ pollPc' = "completed"
            /\ UNCHANGED <<attempts, pollDelay>>
       ELSE IF status = "failed"
       THEN /\ pollPc' = "failed"
            /\ UNCHANGED <<attempts, pollDelay>>
       ELSE /\ attempts' = attempts + 1
            /\ IF attempts' <= maxAttempts
               THEN /\ pollPc' = "timer"
                    /\ pollDelay' = PollInterval
               ELSE /\ pollPc' = "timedOut"
                    /\ pollDelay' = 0
    /\ UNCHANGED notPoll

\* the continuation of check after a response: return on completed and on
\* failed, else attempts++ and either another timer or "Temps expire"
checkResume(status) ==
    /\ pollPc = "request"
    /\ observed' = status
    /\ IF status = "completed"
       THEN /\ pollPc' = "completed"
            /\ UNCHANGED <<attempts, pollDelay>>
       ELSE IF status = "failed"
       THEN /\ pollPc' = "failed"
            /\ UNCHANGED <<attempts, pollDelay>>
       ELSE /\ attempts' = attempts + 1
            /\ IF attempts' < maxAttempts
               THEN /\ pollPc' = "timer"
                    /\ pollDelay' = PollInterval
               ELSE /\ pollPc' = "timedOut"
                    /\ pollDelay' = 0
    /\ UNCHANGED notPoll

\* the catch of check, counting the rejected request as an attempt
checkCatchCountsAttempt ==
    /\ pollPc = "request"
    /\ observed' = "error"
    /\ pollPc' = "timer"
    /\ pollDelay' = ErrorRetryDelay
    /\ attempts' = attempts + 1
    /\ UNCHANGED notPoll

\* the catch of check: the request was rejected
checkCatch ==
    /\ pollPc = "request"
    /\ observed' = "error"
    /\ pollPc' = "timer"
    /\ pollDelay' = ErrorRetryDelay
    /\ UNCHANGED attempts
    /\ UNCHANGED notPoll

\* the pending setTimeout(check, ...) fires: check() runs up to its await
checkTimer ==
    /\ pollPc = "timer"
    /\ pollPc' = "request"
    /\ pollDelay' = 0
    /\ UNCHANGED <<attempts, observed>>
    /\ UNCHANGED notPoll

PollNext ==
    \/ pollImageStatus
    \/ \E status \in Statuses : checkResume(status)
    \/ checkCatch
    \/ checkTimer

PollSpec == Init /\ [][PollNext]_vars

PollTypeOK ==
    /\ pollPc \in {"idle", "request", "timer"} \cup PollTerminal
    /\ attempts \in 0..maxAttempts
    /\ pollDelay \in {0, PollInterval, ErrorRetryDelay}
    /\ observed \in {"none", "error"} \cup Statuses

\* the browser settles every status request and fires every timer
LivePollSpec ==
    /\ PollSpec
    /\ WF_vars(pollImageStatus)
    /\ WF_vars(checkCatch \/ \E status \in Statuses : checkResume(status))
    /\ WF_vars(checkTimer)

(* --------------------------- notification centre ----------------------- *)

NotificationIds == 1..NumNotifications

\* data.notifications of /notifications/api: entries {id, est_lue}, an id
\* listed once
NotificationLists ==
    {l \in UNION {[1..n -> [id : NotificationIds, est_lue : BOOLEAN]] :
                     n \in 0..NumNotifications} :
        \A i, j \in 1..Len(l) : l[i].id = l[j].id => i = j}

\* the entries of a list that are unread
Unread(list) == {k \in 1..Len(list) : ~list[k].est_lue}

\* what a loadNotifications request settles to: rejected / non-2xx, or a
\* body with a list and a count the backend computed on its own
LoadResponses ==
    {[ok |-> FALSE, notifications |-> << >>, unread_count |-> 0]} \cup
    [ok : {TRUE}, notifications : NotificationLists,
     unread_count : 0..NumNotifications]

\* index of the first entry with the id, 0 when there is none:
\* notifications.findIndex(n => n.id == id) + 1
FindIndex(list, id) ==
    IF \E k \in 1..Len(list) : list[k].id = id
    THEN CHOOSE k \in 1..Len(list) :
             /\ list[k].id = id
             /\ \A j \in 1..(k - 1) : list[j].id # id
    ELSE 0

\* Array.prototype.splice(index, 1)
Splice(list, k) == SubSeq(list, 1, k - 1) \o SubSeq(list, k + 1, Len(list))

\* a decrement without the Math.max(0, ...) clamp
DecrementUnclamped(count) == count - 1

\* Math.max(0, this.unreadCount - 1)
Decrement(count) == Max(0, count - 1)

\* the continuation of f follows one of the same operation for the same id
NotifRepeats(f) == lastNotif.op = f.kind /\ lastNotif.id = f.id /\ lastNotif.ok

\* a request of the NotificationManager up to its await fetch; loadNotifications
\* is called by the dropdown, visibilitychange and the count poll, markAsRead
\* and deleteNotification by the click handlers of the rendered entries
NotifCall(kind, id) ==
    /\ notifRequests < MaxNotifRequests
    /\ notifRequests' = notifRequests + 1
    /\ notifInflight' = notifInflight \cup {NotifRequest(notifRequests + 1, kind, id)}
    /\ UNCHANGED <<notifications, unreadCount, selfConsistent, lastNotif>>
    /\ UNCHANGED notNotif

\* loadNotifications after its awaits
loadNotificationsResume(f, r) ==
    /\ f \in notifInflight
    /\ f.kind = "loadNotifications"
    /\ notifInflight' = notifInflight \ {f}
    /\ lastNotif' = NotifDone(f.req, f.kind, f.id, r.ok, NotifRepeats(f))
    /\ IF r.ok
       THEN /\ notifications' = r.notifications
            /\ unreadCount' = r.unread_count
            /\ selfConsistent' =
                   (selfConsistent
                       /\ r.unread_count = Cardinality(Unread(r.notifications)))
       ELSE UNCHANGED <<notifications, unreadCount, selfConsistent>>
    /\ UNCHANGED notifRequests
    /\ UNCHANGED notNotif

\* markAsRead(id) after its await
markAsReadResume(f, ok) ==
    /\ f \in notifInflight
    /\ f.kind = "markAsRead"
    /\ notifInflight' = notifInflight \ {f}
    /\ lastNotif' = NotifDone(f.req, f.kind, f.id, ok, NotifRepeats(f))
    /\ LET k == FindIndex(notifications, f.id)
       IN  IF ok /\ k > 0 /\ ~notifications[k].est_lue
           THEN /\ notifications' = [notifications EXCEPT ![k].est_lue = TRUE]
                /\ unreadCount' = Decrement(unreadCount)
           ELSE UNCHANGED <<notifications, unreadCount>>
    /\ UNCHANGED <<notifRequests, selfConsistent>>
    /\ UNCHANGED notNotif

\* deleteNotification(id) after its await
deleteNotificationResume(f, ok) ==
    /\ f \in notifInflight
    /\ f.kind = "deleteNotification"
    /\ notifInflight' = notifInflight \ {f}
    /\ lastNotif' = NotifDone(f.req, f.kind, f.id, ok, NotifRepeats(f))
    /\ LET k == FindIndex(notifications, f.id)
       IN  IF ok /\ k > 0
           THEN /\ notifications' = Splice(notifications, k)
                /\ unreadCount' = IF ~notifications[k].est_lue
                                  THEN Decrement(unreadCount)
                                  ELSE unreadCount
           ELSE UNCHANGED <<notifications, unreadCount>>
    /\ UNCHANGED <<notifRequests, selfConsistent>>
    /\ UNCHANGED notNotif

\* markAllAsRead after its await
markAllAsReadResume(f, ok) ==
    /\ f \in notifInflight
    /\ f.kind = "markAllAsRead"
    /\ notifInflight' = notifInflight \ {f}
    /\ lastNotif' = NotifDone(f.req, f.kind, f.id, ok, NotifRepeats(f))
    /\ IF ok
       THEN /\ notifications' =
                   [k \in 1..Len(notifications) |->
                       [notifications[k] EXCEPT !.est_lue = TRUE]]
            /\ unreadCount' = 0
       ELSE UNCHANGED <<notifications, unreadCount>>
    /\ UNCHANGED <<notifRequests, selfConsistent>>
    /\ UNCHANGED notNotif

\* clearAll after its await (the user confirmed)
clearAllResume(f, ok) ==
    /\ f \in notifInflight
    /\ f.kind = "clearAll"
    /\ notifInflight' = notifInflight \ {f}
    /\ lastNotif' = NotifDone(f.req, f.kind, f.id, ok, NotifRepeats(f))
    /\ IF ok
       THEN /\ notifications' = << >>
            /\ unreadCount' = 0
       ELSE UNCHANGED <<notifications, unreadCount>>
    /\ UNCHANGED <<notifRequests, selfConsistent>>
    /\ UNCHANGED notNotif

NotifNext ==
    \/ NotifCall("loadNotifications", 0)
    \/ \E id \in NotificationIds : NotifCall("markAsRead", id)
    \/ \E id \in NotificationIds : NotifCall("deleteNotification", id)
    \/ NotifCall("markAllAsRead", 0)
    \/ NotifCall("clearAll", 0)
    \/ \E f \in notifInflight : \E r \in LoadResponses : loadNotificationsResume(f, r)
    \/ \E f \in notifInflight : \E ok \in BOOLEAN : markAsReadResume(f, ok)
    \/ \E f \in notifInflight : \E ok \in BOOLEAN : deleteNotificationResume(f, ok)
    \/ \E f \in notifInflight : \E ok \in BOOLEAN : markAllAsReadResume(f, ok)
    \/ \E f \in notifInflight : \E ok \in BOOLEAN : clearAllResume(f, ok)

\* the page was opened with no conversation
NotifInit == Init /\ currentConversationId = null

NotifSpec == NotifInit /\ [][NotifNext]_vars

NotifTypeOK ==
    /\ notifications \in NotificationLists
    /\ unreadCount \in Int
    /\ notifRequests \in 1..MaxNotifRequests
    /\ selfConsistent \in BOOLEAN

(* -------------------------------- app lock ----------------------------- *)

\* setTimeout(callback, ...): one more pending callback of the kind
Armed(timers, kind) == [timers EXCEPT ![kind] = @ + 1]

\* a handler of AppLock runs: op names it, outcome what it did
LockEvent(op, outcome) ==
    /\ lockEvents < MaxLockEvents
    /\ lockEvents' = lockEvents + 1
    /\ lastLock' = LockDone(lockEvents + 1, op, outcome)

\* an await fetch of AppLock: the request goes out / its response arrives
LockIssue(kind) == lockInflight' = [lockInflight EXCEPT ![kind] = @ + 1]
LockSettle(kind) ==
    /\ lockInflight[kind] > 0
    /\ lockInflight' = [lockInflight EXCEPT ![kind] = @ - 1]

\* what a status request settles to: rejected (or a body that is not JSON),
\* a 401, or {enabled, is_locked}; the backend reports a lock only for an
\* account whose lock is enabled
StatusResponses ==
    {[kind |-> "rejected", enabled |-> FALSE, is_locked |-> FALSE],
     [kind |-> "401", enabled |-> FALSE, is_locked |-> FALSE]} \cup
    {r \in [kind : {"body"}, enabled : BOOLEAN, is_locked : BOOLEAN] :
        r.is_locked => r.enabled}

\* what a verification request settles to: a body with success true, a body
\* with success false, or a rejected request
VerifyResponses == {"success", "failure", "error"}

\* a test of data.success that takes every body for a success
ReportsSuccessAnyBody(r) == r # "error"

\* if (data.success)
ReportsSuccess(r) == r = "success"

\* showOverlay: the overlay exists on every page that loads AppLock
showOverlay ==
    /\ overlay' = [overlay EXCEPT !.hidden = FALSE]
    /\ lockTimers' = Armed(lockTimers, "show")
    /\ digits' = << >>
    /\ isLocked' = TRUE

\* hideOverlay
hideOverlay ==
    /\ overlay' = [overlay EXCEPT !.opacity0 = TRUE]
    /\ lockTimers' = Armed(lockTimers, "hide")

\* init after its awaits
initResume(r) ==
    /\ LockSettle("init")
    /\ LockEvent("init", r.kind)
    /\ IF r.kind = "body"
       THEN /\ isEnabled' = r.enabled
            /\ IF r.enabled /\ r.is_locked
               THEN showOverlay
               ELSE /\ isLocked' = r.is_locked
                    /\ UNCHANGED <<overlay, lockTimers, digits>>
       ELSE UNCHANGED <<isEnabled, isLocked, overlay, lockTimers, digits>>
    /\ UNCHANGED isVerifying
    /\ UNCHANGED notLock

\* checkLockStatus up to its await: visibilitychange or pageshow
checkLockStatus ==
    /\ IF ~isEnabled
       THEN /\ LockEvent("checkLockStatus", "return")
            /\ UNCHANGED lockInflight
       ELSE /\ LockEvent("checkLockStatus", "request")
            /\ LockIssue("status")
    /\ UNCHANGED <<digits, isEnabled, isLocked, isVerifying, overlay, lockTimers>>
    /\ UNCHANGED notLock

\* checkLockStatus after its awaits
checkLockStatusResume(r) ==
    /\ r.kind # "401"
    /\ LockSettle("status")
    /\ LockEvent("checkLockStatusResume", IF r.is_locked THEN "locked" ELSE r.kind)
    /\ IF r.is_locked
       THEN showOverlay
       ELSE UNCHANGED <<overlay, lockTimers, digits, isLocked>>
    /\ UNCHANGED <<isEnabled, isVerifying>>
    /\ UNCHANGED notLock

\* appendDigit(digit): a key of the keypad
appendDigit(digit) ==
    /\ IF Len(digits) >= pinLength
       THEN /\ LockEvent("appendDigit", "return")
            /\ UNCHANGED <<digits, lockTimers>>
       ELSE /\ LockEvent("appendDigit", "pushed")
            /\ digits' = Append(digits, digit)
            /\ lockTimers' = IF Len(digits') = pinLength /\ ~isVerifying
                             THEN Armed(lockTimers, "autoVerify")
                             ELSE lockTimers
    /\ UNCHANGED <<isEnabled, isLocked, isVerifying, overlay, lockInflight>>
    /\ UNCHANGED notLock

\* an early return of verifyPIN that does not look at isVerifying
verifyPINReturnsEarlyIgnoresVerifying == Len(digits) < MinPinLength

\* the early returns of verifyPIN
verifyPINReturnsEarly == isVerifying \/ Len(digits) < MinPinLength

\* verifyPIN up to its await fetch
verifyPINCall(caller) ==
    /\ IF verifyPINReturnsEarly
       THEN /\ LockEvent(caller, "return")
            /\ UNCHANGED <<isVerifying, lockInflight>>
       ELSE /\ LockEvent(caller, "request")
            /\ isVerifying' = TRUE
            /\ LockIssue("verifyPIN")
    /\ UNCHANGED <<digits, isEnabled, isLocked, overlay>>
    /\ UNCHANGED notLock

\* the Validate button
verifyPIN ==
    /\ verifyPINCall("verifyPIN")
    /\ UNCHANGED lockTimers

\* the setTimeout(() => this.verifyPIN(), 200) of appendDigit fires
autoVerifyTimeout ==
    /\ lockTimers["autoVerify"] > 0
    /\ lockTimers' = [lockTimers EXCEPT !["autoVerify"] = @ - 1]
    /\ verifyPINCall("autoVerify")

\* verifyPIN after its awaits, with its finally block
verifyPINResume(r) ==
    /\ LockSettle("verifyPIN")
    /\ LockEvent("verifyPINResume", r)
    /\ IF ReportsSuccess(r)
       THEN /\ hideOverlay
            /\ isLocked' = FALSE
            /\ digits' = << >>
       ELSE /\ lockTimers' = IF r = "failure"
                             THEN Armed(lockTimers, "clearDigits")
                             ELSE lockTimers
            /\ UNCHANGED <<overlay, isLocked, digits>>
    /\ isVerifying' = FALSE
    /\ UNCHANGED isEnabled
    /\ UNCHANGED notLock

\* the setTimeout(..., 400) after a wrong PIN fires: clearDigits
clearDigitsTimeout ==
    /\ lockTimers["clearDigits"] > 0
    /\ lockTimers' = [lockTimers EXCEPT !["clearDigits"] = @ - 1]
    /\ digits' = << >>
    /\ UNCHANGED <<isEnabled, isLocked, isVerifying, overlay, lockInflight,
                   lockEvents, lastLock>>
    /\ UNCHANGED notLock

\* verifyPassword up to its await: filled is whether the input holds text
verifyPassword(filled) ==
    /\ IF ~filled
       THEN /\ LockEvent("verifyPassword", "return")
            /\ UNCHANGED lockInflight
       ELSE /\ LockEvent("verifyPassword", "request")
            /\ LockIssue("verifyPassword")
    /\ UNCHANGED <<digits, isEnabled, isLocked, isVerifying, overlay, lockTimers>>
    /\ UNCHANGED notLock

\* verifyPassword after its awaits
verifyPasswordResume(r) ==
    /\ LockSettle("verifyPassword")
    /\ LockEvent("verifyPasswordResume", r)
    /\ IF ReportsSuccess(r)
       THEN /\ hideOverlay
            /\ isLocked' = FALSE
       ELSE UNCHANGED <<overlay, lockTimers, isLocked>>
    /\ UNCHANGED <<digits, isEnabled, isVerifying>>
    /\ UNCHANGED notLock

\* useBiometrics up to its first await
useBiometrics ==
    /\ LockEvent("useBiometrics", "request")
    /\ LockIssue("useBiometrics")
    /\ UNCHANGED <<digits, isEnabled, isLocked, isVerifying, overlay, lockTimers>>
    /\ UNCHANGED notLock

\* useBiometrics after its awaits: failure stands for a login-verify body
\* without success, error for a throw of any of the steps before it
useBiometricsResume(r) ==
    /\ LockSettle("useBiometrics")
    /\ LockEvent("useBiometricsResume", r)
    /\ IF ReportsSuccess(r)
       THEN /\ hideOverlay
            /\ isLocked' = FALSE
       ELSE UNCHANGED <<overlay, lockTimers, isLocked>>
    /\ UNCHANGED <<digits, isEnabled, isVerifying>>
    /\ UNCHANGED notLock

\* the setTimeout(..., 300) of hideOverlay fires
hideTimeout ==
    /\ lockTimers["hide"] > 0
    /\ lockTimers' = [lockTimers EXCEPT !["hide"] = @ - 1]
    /\ overlay' = [overlay EXCEPT !.hidden = TRUE]
    /\ UNCHANGED <<digits, isEnabled, isLocked, isVerifying, lockInflight,
                   lockEvents, lastLock>>
    /\ UNCHANGED notLock

\* the setTimeout(..., 10) of showOverlay fires
showTimeout ==
    /\ lockTimers["show"] > 0
    /\ lockTimers' = [lockTimers EXCEPT !["show"] = @ - 1]
    /\ overlay' = [overlay EXCEPT !.opacity0 = FALSE]
    /\ UNCHANGED <<digits, isEnabled, isLocked, isVerifying, lockInflight,
                   lockEvents, lastLock>>
    /\ UNCHANGED notLock

\* the keypad, the Validate button, the password form and the biometric
\* button are parts of the overlay: the user reaches them while the overlay
\* does not carry the class hidden
OverlayReachable == ~overlay.hidden

\* the handlers of AppLock in any order; pending timers fire in any order,
\* which includes every order their delays allow
LockNext ==
    \/ \E r \in StatusResponses : initResume(r)
    \/ checkLockStatus
    \/ \E r \in StatusResponses : checkLockStatusResume(r)
    \/ OverlayReachable /\ appendDigit(1)
    \/ OverlayReachable /\ verifyPIN
    \/ autoVerifyTimeout
    \/ \E r \in VerifyResponses : verifyPINResume(r)
    \/ clearDigitsTimeout
    \/ \E filled \in BOOLEAN : OverlayReachable /\ verifyPassword(filled)
    \/ \E r \in VerifyResponses : verifyPasswordResume(r)
    \/ OverlayReachable /\ useBiometrics
    \/ \E r \in VerifyResponses : useBiometricsResume(r)
    \/ hideTimeout
    \/ showTimeout

\* the page was opened with no conversation
LockInit == Init /\ currentConversationId = null

LockSpec == LockInit /\ [][LockNext]_vars

LockTypeOK ==
    /\ digits \in UNION {[1..n -> {1}] : n \in 0..pinLength}
    /\ isEnabled \in BOOLEAN
    /\ isLocked \in BOOLEAN
    /\ isVerifying \in BOOLEAN
    /\ overlay \in [hidden : BOOLEAN, opacity0 : BOOLEAN]
    /\ lockEvents \in 0..MaxLockEvents

(* ------------------------------ image gallery -------------------------- *)

\* elements.searchInput.value after trim()
SearchInputs == {"", "q"}

\* what a search request settles to: rejected or non-2xx, a full page of
\* results, or a page shorter than DEFAULT_IMAGES_PER_PAGE
SearchResponses == {"error", "full", "short"}

\* handleSearch up to its await fetch
handleSearch(query) ==
    /\ IF query = ""
       THEN UNCHANGED galleryVars
       ELSE /\ galleryRequests < MaxGalleryRequests
            /\ currentSearchQuery' = query
            /\ currentPage' = 1
            /\ lastDisplayed' = 0
            /\ galleryRequests' = galleryRequests + 1
            /\ galleryInflight' = galleryInflight \cup
                   {GalleryRequest(galleryRequests + 1, "handleSearch", 1)}
            /\ UNCHANGED <<loadMoreHidden, lastGallery>>
    /\ UNCHANGED notGallery

\* handleSearch after its awaits: the results replace the container, or the
\* demo images do
handleSearchResume(f, r) ==
    /\ f \in galleryInflight
    /\ f.kind = "handleSearch"
    /\ galleryInflight' = galleryInflight \ {f}
    /\ lastGallery' = GalleryDone(f.req, f.kind, r # "error")
    /\ IF r # "error"
       THEN /\ lastDisplayed' = f.page
            /\ loadMoreHidden' = (r = "short")
       ELSE /\ lastDisplayed' = 0
            /\ UNCHANGED loadMoreHidden
    /\ UNCHANGED <<currentPage, currentSearchQuery, galleryRequests>>
    /\ UNCHANGED notGallery

\* state.currentPage++ ahead of the request
RequestedPage(page) == page + 1

\* loadMoreImages up to its await fetch
loadMoreImages ==
    /\ IF currentSearchQuery = ""
       THEN UNCHANGED galleryVars
       ELSE /\ galleryRequests < MaxGalleryRequests
            /\ currentPage' = RequestedPage(currentPage)
            /\ galleryRequests' = galleryRequests + 1
            /\ galleryInflight' = galleryInflight \cup
                   {GalleryRequest(galleryRequests + 1, "loadMoreImages", currentPage')}
            /\ UNCHANGED <<currentSearchQuery, loadMoreHidden, lastDisplayed,
                           lastGallery>>
    /\ UNCHANGED notGallery

\* loadMoreImages after its awaits
loadMoreImagesResume(f, r) ==
    /\ f \in galleryInflight
    /\ f.kind = "loadMoreImages"
    /\ galleryInflight' = galleryInflight \ {f}
    /\ lastGallery' = GalleryDone(f.req, f.kind, r # "error")
    /\ IF r # "error"
       THEN /\ lastDisplayed' = f.page
            /\ loadMoreHidden' = (loadMoreHidden \/ r = "short")
       ELSE UNCHANGED <<lastDisplayed, loadMoreHidden>>
    /\ UNCHANGED <<currentPage, currentSearchQuery, galleryRequests>>
    /\ UNCHANGED notGallery

\* the search button and the Load more button, which is clicked while shown
GalleryNext ==
    \/ \E query \in SearchInputs : handleSearch(query)
    \/ \E f \in galleryInflight : \E r \in SearchResponses : handleSearchResume(f, r)
    \/ ~loadMoreHidden /\ loadMoreImages
    \/ \E f \in galleryInflight : \E r \in SearchResponses : loadMoreImagesResume(f, r)

\* the page was opened with no conversation
GalleryInit == Init /\ currentConversationId = null

GallerySpec == GalleryInit /\ [][GalleryNext]_vars

(* ------------------------------ claims --------------------------------- *)

\* the fetch whose continuation ran in this step
Settled == inflight \ inflight'

\* the page-1 fetch of the latest selection is still outstanding
PageOneOutstanding ==
    \E f \in inflight :
        f.kind = "history" /\ f.id = latestHistory /\ f.conv = currentConversationId

\* C1: a successful older-page response puts the page's messages, in the
\* order the backend returned them, as one block in front of the transcript.
C1_PageInsertedInReturnedOrder ==
    [][(lastOp'.op = "loadMoreMessagesResume" /\ lastOp'.ok)
        => \A f \in Settled :
              transcript' = BackendPage(f.conv, f.page) \o transcript]_vars

\* C2: a page-1 response for a conversation other than the active one
\* changes neither the transcript nor the cursor.
C2_StaleHistoryResponseDiscarded ==
    [][(/\ lastOp'.op = "loadConversationHistoryResume"
        /\ currentConversationId # null
        /\ lastOp'.conv # currentConversationId)
        => UNCHANGED <<transcript, pagination>>]_vars

\* C3: an older-page response requested for a conversation that is no
\* longer the active one (another is, or none) changes neither the
\* transcript nor the cursor.
C3_StaleMoreResponseDiscarded ==
    [][(/\ lastOp'.op = "loadMoreMessagesResume"
        /\ lastOp'.conv # currentConversationId)
        => UNCHANGED <<transcript, pagination>>]_vars

\* C4: at most one older-page fetch is outstanding per conversation.
C4_AtMostOneOlderPageFetch ==
    \A c \in Conversations :
        Cardinality({f \in inflight : f.kind = "more" /\ f.conv = c}) <= 1

\* C5: no older-page fetch is issued while the page-1 fetch of the latest
\* selection is outstanding.
C5_NoOlderFetchBeforePageOne ==
    [][(lastOp'.op = "loadMoreMessages" /\ lastOp'.ok) => ~PageOneOutstanding]_vars

\* C6: loadMoreMessages with no active conversation, hasMore false or
\* isLoading true issues no fetch and leaves transcript and cursor alone.
C6_LoadMoreNoOpWhenGated ==
    [][(/\ lastOp'.op = "loadMoreMessages"
        /\ \/ currentConversationId = null
           \/ pagination.hasMore = FALSE
           \/ pagination.isLoading = TRUE)
        => /\ UNCHANGED <<transcript, pagination, inflight, fetchCount,
                          currentConversationId>>
           /\ lastOp'.ok = FALSE]_vars

\* C6 witness: loadMoreMessages ran and returned early on an active
\* conversation whose cursor is loading
C6_Witness ==
    /\ lastOp.op = "loadMoreMessages"
    /\ ~lastOp.ok
    /\ currentConversationId # null
    /\ pagination.hasMore
    /\ pagination.isLoading

\* C7: right after setActiveConversation changed the active id, the cursor
\* is {page: 1, hasMore: true, isLoading: false} and the page-1 fetch of the
\* new conversation is outstanding.
C7_CursorResetAtSwitch ==
    (lastOp.op = "setActiveConversation" /\ lastOp.ok)
        => /\ pagination = [page |-> 1, hasMore |-> TRUE, isLoading |-> FALSE]
           /\ currentConversationId = lastOp.conv
           /\ HistoryFetch(fetchCount, currentConversationId) \in inflight

\* C7 witness: a switch made while an older-page fetch of the previous
\* conversation was outstanding
C7_Witness ==
    /\ lastOp.op = "setActiveConversation"
    /\ lastOp.ok
    /\ \E f \in inflight : f.kind = "more" /\ f.conv # currentConversationId

\* C8: while the page-1 fetch of the newly active conversation is
\* outstanding, the transcript holds no message of another conversation.
C8_TranscriptEmptiedAtSwitch ==
    PageOneOutstanding
        => \A i \in 1..Len(transcript) : transcript[i].conv = currentConversationId

\* C9: a cursor that is loading is eventually not loading.
C9_IsLoadingEventuallyCleared ==
    (pagination.isLoading = TRUE) ~> (pagination.isLoading = FALSE)

\* C9 witness: the older-page fetch of a conversation that is no longer
\* active failed and the current cursor is not loading
C9_Witness ==
    /\ lastOp.op = "loadMoreMessagesResume"
    /\ ~lastOp.ok
    /\ lastOp.conv # currentConversationId
    /\ currentConversationId # null
    /\ pagination.isLoading = FALSE

\* C10: a failed older-page fetch shows the notification and changes
\* nothing but isLoading, which becomes false.
C10_FailedMoreLeavesCursor ==
    [][(lastOp'.op = "loadMoreMessagesResume" /\ ~lastOp'.ok)
        => /\ lastOp'.toast = "Impossible de charger plus de messages"
           /\ transcript' = transcript
           /\ pagination'.page = pagination.page
           /\ pagination'.hasMore = pagination.hasMore
           /\ pagination'.isLoading = FALSE
           /\ currentConversationId' = currentConversationId]_vars

\* C10 witness: the older-page fetch of the active conversation failed
\* with a page-2 cursor that still has more
C10_Witness ==
    /\ lastOp.op = "loadMoreMessagesResume"
    /\ ~lastOp.ok
    /\ lastOp.toast = "Impossible de charger plus de messages"
    /\ lastOp.conv = currentConversationId
    /\ pagination.hasMore
    /\ ~pagination.isLoading
    /\ Len(transcript) > 0

\* C11: after the page-1 fetch of the latest selection failed, the transcript
\* shows no message of another conversation, and selecting that conversation
\* again issues a page-1 fetch.
C11_FailedPageOneRetryable ==
    [][/\ (/\ lastOp'.op = "loadConversationHistoryResume"
           /\ ~lastOp'.ok
           /\ \E f \in Settled : f.id = latestHistory /\ f.conv = currentConversationId)
          => \A i \in 1..Len(transcript') :
                 transcript'[i].conv = currentConversationId'
       /\ (/\ lastOp.op = "loadConversationHistoryResume"
           /\ ~lastOp.ok
           /\ lastOp.conv = currentConversationId
           /\ lastOp'.op = "setActiveConversation"
           /\ lastOp'.conv = lastOp.conv)
          => \E f \in inflight' \ inflight : f.kind = "history" /\ f.conv = lastOp.conv
      ]_vars

\* C13: a successful page-1 response without pagination metadata leaves the
\* cursor with hasMore false.
C13_HistoryWithoutPaginationExhausted ==
    [][\A f \in Settled :
          loadConversationHistoryResume(f, [ok |-> TRUE, pagination |-> NoPagination])
              => pagination'.hasMore = FALSE]_vars

\* C14: while the cursor is not reset, the response to a fetch issued since
\* the reset never lowers the cursor's page.
C14_PageNeverDecreases ==
    [][(/\ latestHistory' = latestHistory
        /\ \A f \in Settled : f.id >= latestHistory /\ f.conv = currentConversationId)
        => pagination'.page >= pagination.page]_vars

\* C18: with no active conversation and an empty transcript, the transcript
\* stays empty until a conversation is selected.
C18_TranscriptStaysEmptyAfterNewChat ==
    [][(/\ currentConversationId = null
        /\ transcript = << >>
        /\ lastOp'.op # "setActiveConversation")
        => transcript' = << >>]_vars

\* C12: a successful older-page response without pagination metadata sets
\* hasMore to false, and until the cursor is reset no scroll to the top issues
\* an older-page fetch.
C12_MoreWithoutPaginationCloses ==
    [][/\ \A f \in Settled :
              (/\ f.kind = "more"
               /\ loadMoreMessagesResume(f, [ok |-> TRUE, pagination |-> NoPagination]))
                  => pagination'.hasMore = FALSE
       /\ (exhausted /\ exhausted' /\ lastOp'.op = "loadMoreMessages")
              => (lastOp'.ok = FALSE /\ inflight' = inflight)]_vars

\* every message of conversation c, oldest first
FullHistory(c) == [i \in 1..MsgCount |-> [conv |-> c, seq |-> i]]

\* ceil(MsgCount / PageSize)
PageTotal == (MsgCount + PageSize - 1) \div PageSize

\* C15: with truthful responses, page 1 loaded and then one scroll-triggered
\* fetch at a time, hasMore is false after exactly ceil(N/P) fetches and the
\* transcript is then the whole history, oldest first, each message once.
C15_FullHistoryInOrder ==
    (/\ scenario
     /\ currentConversationId # null
     /\ inflight = {}
     /\ fetchCount >= 1
     /\ pagination.hasMore = FALSE)
        => /\ fetchCount = PageTotal
           /\ transcript = FullHistory(currentConversationId)

\* C16: a successful older-page merge into the content the call saw moves the
\* scroll offset by exactly the height it added above that content.
C16_ScrollOffsetShiftedByDelta ==
    [][(/\ lastOp'.op = "loadMoreMessagesResume"
        /\ lastOp'.ok
        /\ \A f \in Settled : f.height = scrollHeight(transcript))
        => scrollTop' = scrollTop + (scrollHeight(transcript') - scrollHeight(transcript))]_vars

\* C17: setActiveConversation with the id that is already active issues no
\* fetch, pushes no history entry and changes neither id, cursor nor transcript.
C17_SelectingActiveIsNoOp ==
    [][(lastOp'.op = "setActiveConversation" /\ lastOp'.conv = currentConversationId)
        => /\ UNCHANGED <<currentConversationId, pagination, transcript, scrollTop,
                          inflight, fetchCount>>
           /\ lastOp'.push = FALSE
           /\ lastOp'.ok = FALSE]_vars

\* C17 witness: the active conversation, with its page 1 shown, was selected
\* again
C17_Witness ==
    /\ lastOp.op = "setActiveConversation"
    /\ ~lastOp.ok
    /\ lastOp.conv = currentConversationId
    /\ Len(transcript) > 0
    /\ \A i \in 1..Len(transcript) : transcript[i].conv = currentConversationId

\* C19: a popstate without a conversation marker clears the active
\* conversation and the transcript when the path ends in 'chat', and changes
\* nothing for any other path.
C19_PopstateWithoutMarker ==
    [][/\ popstate(null, "chat")
              => (currentConversationId' = null /\ transcript' = << >>)
       /\ \A seg \in PathSegments \ {"chat"} :
              popstate(null, seg)
                  => UNCHANGED <<currentConversationId, pagination, transcript,
                                 scrollTop, inflight, fetchCount>>]_vars

\* C20: every poll loop started by pollImageStatus eventually reaches one of
\* the terminal states completed, failed or timed out, whatever the status
\* responses and request errors are
C20_PollLoopTerminates ==
    (pollPc = "request") ~> (pollPc \in {"completed", "failed", "timedOut"})

\* C21: once a poll loop has observed status completed or failed, or has
\* counted maxAttempts pending responses, no status check is scheduled or
\* outstanding, and nothing of the loop changes afterwards.
C21_TerminalStatesAbsorbing ==
    [][/\ (observed' \in {"completed", "failed"} \/ attempts' >= 60)
              => (pollPc' \notin {"request", "timer"} /\ pollDelay' = 0)
       /\ pollPc \in {"completed", "failed", "timedOut"}
              => UNCHANGED <<pollPc, attempts, pollDelay>>]_vars

C21_Witness ==
    pollPc = "timedOut" /\ attempts = 60 /\ observed = "pending"

\* C28: a rejected status request leaves the attempt counter as it was, does
\* not end the loop as failed, and schedules the next check after 5000 ms.
C28_ErrorRetriesWithoutAttempt ==
    [][(pollPc = "request" /\ observed' = "error")
          => /\ attempts' = attempts
             /\ pollPc' = "timer"
             /\ pollDelay' = 5000]_vars

C28_Witness ==
    /\ observed = "error"
    /\ pollPc = "timer"
    /\ pollDelay = 5000
    /\ attempts > 0

\* C27: a message whose message_type is not 'user' is rendered as an AI
\* message, also when its sender_id equals the user_id of the response.
C27_RoleTagTakesPrecedence ==
    (renderMsg.message_type \notin {"user", "none"}) => ~renderNode.isUser

\* C22: every placeholder with a non-empty task id of a streamed reply gets
\* exactly one poll loop, and no poll loop starts before the whole content
\* was revealed.
C22_OnePollPerPlaceholderAfterReveal ==
    /\ \A k \in 1..Len(polls) :
           /\ polls[k].revealed = Len(Split(streamContent))
           /\ currentText = streamContent \o <<" ">>
    /\ \A idx \in 1..Len(contentDiv) :
           LET started == Cardinality({k \in 1..Len(polls) : polls[k].index = idx})
           IN  IF /\ streamPc = "done"
                  /\ contentDiv[idx].tag = "placeholder"
                  /\ contentDiv[idx].taskId # ""
               THEN started = 1
               ELSE started = 0

C22_Witness ==
    /\ streamPc = "done"
    /\ untilElement < 0
    /\ Len(polls) = 1
    /\ Cardinality({idx \in 1..Len(contentDiv) : contentDiv[idx].tag = "placeholder"}) = 2

\* C23: the markup written into the node of a streamed reply holds no
\* script element and no event-handler attribute, as on the history path.
C23_StreamedMarkupSanitized ==
    \A k \in 1..Len(contentDiv) :
        /\ ~(contentDiv[k].tag = "element" /\ contentDiv[k].atom = "<script>")
        /\ ~contentDiv[k].handlers

\* the text a markup was rendered from, placeholders written back as markers
RECURSIVE SourceText(_)
SourceText(markup) ==
    IF markup = << >> THEN << >>
    ELSE (IF Head(markup).tag = "placeholder"
          THEN <<"[Image", " ", "en", " ", "cours", " ", "de", " ",
                 "generation:", " ">> \o Head(markup).filename \o <<"]">>
          ELSE <<Head(markup).atom>>) \o SourceText(Tail(markup))

\* the atoms of the markup from item k on, up to the first placeholder
RECURSIVE AtomsFrom(_, _)
AtomsFrom(markup, k) ==
    IF k > Len(markup) \/ markup[k].tag = "placeholder" THEN << >>
    ELSE <<markup[k].atom>> \o AtomsFrom(markup, k + 1)

RECURSIVE JoinFirst(_, _)
JoinFirst(tokens, k) ==
    IF k = 0 THEN << >> ELSE JoinFirst(tokens, k - 1) \o tokens[k] \o <<" ">>

\* C29: after the k-th iteration of typeAIStream the accumulated text is the
\* first k tokens, each followed by one separator; an iteration reveals the
\* next token and nothing else, and the text only grows.
C29_RevealsTokensInOrder ==
    [][/\ streamPc' # "idle" =>
              currentText' = JoinFirst(Split(streamContent'), revealed')
       /\ (streamPc = "delay" /\ currentText' # currentText) =>
              /\ revealed' = revealed + 1
              /\ Len(currentText') > Len(currentText)
              /\ SubSeq(currentText', 1, Len(currentText)) = currentText]_vars

C29_Witness ==
    /\ streamPc = "delay"
    /\ revealed = 3
    /\ Len(Split(streamContent)) > 3
    /\ Split(streamContent)[1] = << >>

\* C30: after the last iteration the accumulated text is the content
\* followed by one space, and the markup shown is the markup of the content
\* followed by that space.
C30_FinalTextIsContent ==
    streamPc = "done" =>
        /\ currentText = streamContent \o <<" ">>
        /\ contentDiv =
               markedParse(formatAIContent(streamContent, streamAttachments))
                   \o <<Text(" ")>>

C30_Witness ==
    /\ streamPc = "done"
    /\ Len(streamContent) >= 2
    /\ streamContent[1] = " "
    /\ streamContent[2] = " "

\* what a child of elements.messages is: a message of a history page, or a
\* node handleSubmit made
KindOf(node) == IF "kind" \in DOMAIN node THEN node.kind ELSE "history"

\* C25: once the user selected another conversation or started a new chat
\* while a reply is being revealed, a token reveal changes neither the
\* markup of a node of the transcript nor the scroll offset.
C25_NoRevealAfterNavigation ==
    [][(/\ streamPc = "delay"
        /\ lastOp.op \in {"setActiveConversation", "newChat"}
        /\ lastOp.ok
        /\ revealed' = revealed + 1)
          => /\ scrollTop' = scrollTop
             /\ (\E k \in 1..Len(transcript) : KindOf(transcript[k]) = "ai")
                    => contentDiv' = contentDiv]_vars

\* C26: an accepted submission of non-empty text without attachments whose
\* request succeeded appended one user node with the text as literal text
\* and then one AI node, and appends nothing else.
C26_OneUserNodeThenOneAINode ==
    [][/\ (submits' = submits + 1 /\ submitted'.message # << >>) =>
              /\ Len(transcript') = Len(transcript) + 2
              /\ KindOf(transcript'[Len(transcript) + 1]) = "user"
              /\ transcript'[Len(transcript) + 1].text =
                     [k \in 1..Len(submitted'.message) |->
                         [tag |-> "text", atom |-> submitted'.message[k],
                          filename |-> << >>, taskId |-> "", handlers |-> FALSE]]
              /\ KindOf(transcript'[Len(transcript) + 2]) = "typing"
       /\ (/\ submitPc' = "stream" \/ (submitPc = "stream" /\ submitPc' = "idle")
           /\ submitted'.message # << >>
           /\ submitted'.pending = << >>) =>
              /\ Len(submitLog') = 2
              /\ submitLog'[1].kind = "user"
              /\ submitLog'[2].kind = "ai"
       /\ (submitPc = "request" /\ submitPc' = "stream") =>
              /\ Len(transcript') > 0
              /\ KindOf(transcript'[Len(transcript')]) = "ai"
              /\ \A k \in 1..Len(transcript') : KindOf(transcript'[k]) # "typing"
              /\ Cardinality({k \in 1..Len(transcript') : KindOf(transcript'[k]) = "ai"})
                     = Cardinality({k \in 1..Len(transcript) : KindOf(transcript[k]) = "ai"}) + 1]_vars

C26_Witness ==
    /\ submitPc = "idle"
    /\ streamPc = "done"
    /\ submitted.pending = << >>
    /\ Len(transcript) = 2
    /\ KindOf(transcript[1]) = "user"
    /\ KindOf(transcript[2]) = "ai"

\* C31: whenever a conversation is active the pagination cursor has been
\* initialised, so the loadMoreMessages a scroll to the top runs never reads
\* an absent cursor; in particular once handleSubmit adopted the
\* conversation_id of the reply to a first message.
C31_CursorInitialisedWhileActive ==
    /\ currentConversationId # null =>
           pagination # [page |-> 0, hasMore |-> FALSE, isLoading |-> FALSE]
    /\ lastOp.op # "loadMoreMessagesRejected"

\* C32: when the reply to a chat request sent for conversation A is handled
\* after the user selected conversation B, it neither makes A the active
\* conversation again nor appends an AI node to the transcript of B.
C32_ReplyAfterSwitchLeavesActive ==
    [][(/\ submitPc = "request"
        /\ submitPc' # "request"
        /\ submitConv # null
        /\ currentConversationId # null
        /\ currentConversationId # submitConv)
          => /\ currentConversationId' = currentConversationId
             /\ Cardinality({k \in 1..Len(transcript') : KindOf(transcript'[k]) = "ai"})
                    = Cardinality({k \in 1..Len(transcript) : KindOf(transcript[k]) = "ai"})]_vars

\* C33: at most one chat submission is in progress at a time: a handleSubmit
\* that runs while State.isTyping is true changes nothing, isTyping is true
\* exactly while a submission is in progress, and every accepted submission
\* is followed by isTyping false, whether the request is rejected, answers
\* non-2xx, succeeds, or the rendering of the reply throws.
C33_OneSubmissionAtATime ==
    /\ [](isTyping <=> submitPc # "idle")
    /\ [][(isTyping /\ lastOp' # lastOp /\ lastOp'.op = "handleSubmit")
            => /\ ~lastOp'.ok
               /\ UNCHANGED <<transcript, scrollTop, currentConversationId, streamVars>>]_vars
    /\ [][isTyping => submits' = submits]_vars
    /\ (isTyping ~> ~isTyping)

\* C33 witness: the second submission of the behaviour was accepted, the
\* rendering of its reply threw, and isTyping is false again
C33_Witness ==
    /\ submits = 2
    /\ lastOp.op = "typeAIStreamThrows"
    /\ ~isTyping
    /\ KindOf(transcript[Len(transcript)]) = "error"

C35_UnlockOnlyOnSuccess ==
    /\ [][(isLocked /\ ~isLocked')
            => /\ lastLock'.n # lastLock.n
               /\ lastLock'.op \in {"verifyPINResume", "verifyPasswordResume",
                                     "useBiometricsResume"}
               /\ lastLock'.outcome = "success"]_vars
    /\ [][(/\ lastLock'.n # lastLock.n
            /\ \/ lastLock'.outcome \in {"failure", "error"}
               \/ (lastLock'.op \in {"verifyPIN", "autoVerify"} /\ Len(digits) < 4))
            => /\ isLocked' = isLocked
               /\ overlay' = overlay
               /\ lockTimers'["hide"] = lockTimers["hide"]]_vars

\* C35 witness: a PIN verification answered with a failure while the lock
\* was on; the lock is still on and the overlay shown
C35_Witness ==
    /\ lastLock.op = "verifyPINResume"
    /\ lastLock.outcome = "failure"
    /\ isLocked
    /\ ~overlay.hidden
    /\ lockTimers["hide"] = 0

\* C36: once every pending timer of AppLock has fired, the overlay is shown
\* whenever state.isLocked is true: the hide timer of an earlier hideOverlay
\* does not undo a later showOverlay.
C36_OverlayShownWhileLocked ==
    ((\A k \in {"hide", "show", "autoVerify", "clearDigits"} : lockTimers[k] = 0)
        /\ isLocked) => ~overlay.hidden

\* C37: at most one PIN verification request is outstanding, the digit
\* buffer holds at most 6 digits, isVerifying is true exactly while the
\* request is outstanding and false after every verification response,
\* whatever it reports.
C37_OnePINVerification ==
    /\ [](lockInflight["verifyPIN"] <= 1)
    /\ [](Len(digits) <= 6)
    /\ [](isVerifying <=> lockInflight["verifyPIN"] = 1)
    /\ [][(lastLock'.n # lastLock.n /\ lastLock'.op = "verifyPINResume")
            => ~isVerifying']_vars

\* C37 witness: six digits were entered, the verification request they
\* started was rejected, and isVerifying is false again
C37_Witness ==
    /\ lastLock.op = "verifyPINResume"
    /\ lastLock.outcome = "error"
    /\ Len(digits) = 6
    /\ ~isVerifying
    /\ lockTimers["autoVerify"] = 0
    /\ lockInflight["verifyPIN"] = 0

\* C38: while no search request is outstanding, state.currentPage is the
\* number of the result page displayed last for the current query; a
\* loadMoreImages whose request failed leaves it there, so the next one
\* asks for the page that failed.
C38_CurrentPageIsLastDisplayed ==
    (galleryInflight = {} /\ lastDisplayed > 0) => currentPage = lastDisplayed

====
